---- MODULE Spec2Model ----
(***************************************************************************)
(* Session sandbox manager of livebench/tools/productivity/                *)
(* code_execution_sandbox.py: the SessionSandbox singleton, its three      *)
(* backends (E2B cloud sandbox, Beta9 serverless endpoint, Docker local    *)
(* container), reference-file upload, and the execute_code tool.           *)
(*                                                                         *)
(* Python values are modelled as follows.                                  *)
(*   - str: a sequence of one-character strings, so that lower(), strip()  *)
(*     and the regular-expression scan are computed, not assumed.          *)
(*   - Optional[str] whose text is opaque: Null or Str(s).                 *)
(*   - a backend object: a handle h >= 1 indexing `backends`; None is 0.   *)
(*   - SessionSandbox._instance: a sequence of zero or one instance record.*)
(*   - a file path: a sequence of path components.                         *)
(* Every operation is one action: callers serialize access (spec.md 5).    *)
(***************************************************************************)
EXTENDS Integers, Sequences, FiniteSets, TLC

\* Number of backend objects a behaviour may construct.
MaxBackends == 2

\* Length of the longest list given to upload_task_reference_files.
MaxFiles == 2

\* Length of the longest text given to the artifact scan on its own.
MaxTextLen == 5

VARIABLES
    Sandbox,        \* the e2b_code_interpreter import: TRUE iff the SDK is installed
    beta9,          \* the beta9 import: TRUE iff the module is installed
    e2b_key,        \* os.getenv("E2B_API_KEY"): Null or a character sequence
    instance,       \* SessionSandbox._instance
    backends,       \* every backend object constructed so far, by handle
    returned_paths, \* local_path -> the remote path upload_reference_file first
                    \* returned for it while the present backend has been held
    last,           \* the latest call: its name, inputs and observable events
    response,       \* the value the latest call returned (or the error it raised)
    files,          \* file contents, followed by FilesSpec only: the files
                    \* in the held backend, the bytes the uploads that
                    \* returned sent to it, and the local download directory
    inflight        \* the execute_code call in progress on another thread,
                    \* followed by RaceSpec only: its position and its locals

vars ==
    <<Sandbox, beta9, e2b_key, instance, backends, returned_paths, last, response,
      files, inflight>>

-----------------------------------------------------------------------------
(* Python values *)

Null == <<"null">>
Str(s) == <<"str", s>>

None == 0

Whitespace == {" ", "\t", "\n"}

LowerChar(c) ==
    CASE c = "P" -> "p" [] c = "Y" -> "y" [] c = "T" -> "t"
      [] c = "H" -> "h" [] c = "O" -> "o" [] c = "N" -> "n"
      [] c = "R" -> "r" [] c = "U" -> "u" [] c = "B" -> "b"
      [] OTHER -> c

Lower(s) == [i \in 1..Len(s) |-> LowerChar(s[i])]

RECURSIVE LStrip(_)
LStrip(s) == IF s # <<>> /\ Head(s) \in Whitespace THEN LStrip(Tail(s)) ELSE s

RECURSIVE RStrip(_)
RStrip(s) ==
    IF s # <<>> /\ s[Len(s)] \in Whitespace THEN RStrip(SubSeq(s, 1, Len(s) - 1)) ELSE s

Strip(s) == RStrip(LStrip(s))

Python == <<"p", "y", "t", "h", "o", "n">>

Placeholder ==
    <<"y", "o", "u", "r", "-", "e", "2", "b", "-", "a", "p", "i", "-",
      "k", "e", "y", "-", "h", "e", "r", "e">>

Basename(path) == path[Len(path)]

EmptyMap == [x \in {} |-> <<>>]

MapPut(f, k, v) == [x \in DOMAIN f \cup {k} |-> IF x = k THEN v ELSE f[x]]

-----------------------------------------------------------------------------
(* Inputs *)

Languages ==
    { Python,
      <<" ", "P", "Y", "T", "H", "O", "N", "\n">>,
      <<"p", "y", " ", "t", "h", "o", "n">>,
      <<"R", "u", "b", "y">>,
      <<>> }

Codes == { <<>>, <<"x", "=", "1">> }

ApiKeys == { Null, <<" ">>, Placeholder, <<"e", "2", "b", "_", "k">> }

\* What _get_global_state() yields during a call: it raises (leaving {}), or
\* returns the process state without or with a data_path.
GlobalStates == { "unavailable", "no_data_path", "data_path" }

\* The literal "ARTIFACT_PATH:" as one token of a text. The other tokens are
\* single characters, none of which occurs in the literal, and the literal has
\* no proper prefix that is also a suffix, so occurrences of the literal in a
\* text are exactly the occurrences of the token.
Marker == "ARTIFACT_PATH:"

\* What a run may print. A str for Beta9 and Docker ...
StdoutTexts ==
    { <<"a">>,
      <<Marker, " ", "/", "a">>,
      <<"a", "\n", Marker, "/", "a", "\n", "b", "\n", Marker, "/", "b", "\n">> }

\* ... and a list of str for E2B (execution.logs.stdout).
StdoutLists ==
    { << <<"a">> >>,
      << <<Marker, "/", "a">>, <<Marker, "/", "b">> >>,
      << <<Marker>>, <<"/", "a">> >> }

\* The captured stderr of a run.
Stderrs == { "warning" }

\* execution.error: None, or an error whose str() is the text.
Errors == { Null, Str(""), Str("boom") }

LocalPaths == { <<"data", "a.csv">>, <<"data", "b.bin">> }

DefaultRemoteDir == <<"home", "user", "reference_files">>

RemoteDirs == { DefaultRemoteDir, <<"tmp">> }

-----------------------------------------------------------------------------
(* Backends *)

E2bId(h) == Str("e2b-" \o ToString(h))

\* A backend object: its class, whether the sandbox, endpoint or container
\* behind it is reachable, and whether kill() was invoked on it.
NewBackend(kind) == [kind |-> kind, alive |-> TRUE, killed |-> FALSE]

\* files.list("/"): the E2B client raises on a dead sandbox; the Beta9 and
\* Docker adapters swallow every failure and return [].
ListRaises(b) == b.kind = "e2b" /\ ~b.alive

\* kill(): a no-op for Beta9 and Docker; for E2B it ends the sandbox unless
\* the call itself raises.
Kill(b, killOk) ==
    [b EXCEPT !.killed = TRUE,
              !.alive = IF b.kind = "e2b" /\ killOk THEN FALSE ELSE @]

-----------------------------------------------------------------------------
(* SessionSandbox *)

NewSessionSandbox ==
    [sandbox |-> None,
     sandbox_id |-> Null,
     uploaded_reference_files |-> EmptyMap,
     use_local_fallback |-> FALSE]

get_instance(inst) == IF inst = <<>> THEN <<NewSessionSandbox>> ELSE inst

\* The usable-credential test of line 413.
KeyUsable(key) == key # Null /\ key # <<>> /\ Strip(key) # <<>> /\ key # Placeholder

E2bConfiguredWithoutSdk(sdk, key) == KeyUsable(key)

\* The condition of line 413.
E2bConfigured(sdk, key) ==
    /\ sdk
    /\ KeyUsable(key)

NoEvents ==
    [probed |-> FALSE, probe_failed |-> FALSE, kill_on |-> None,
     kill_raised |-> FALSE, e2b_attempted |-> FALSE, e2b_failed |-> FALSE,
     created |-> None, returned |-> None,
     probes |-> 0,      \* calls of files.list("/")
     creates |-> 0]     \* calls of Sandbox.create

HealthCheckKeepsUploads(self, bs, killOk) ==
    IF self.sandbox = None
    THEN [self |-> self, backends |-> bs, ev |-> NoEvents]
    ELSE IF ~ListRaises(bs[self.sandbox])
    THEN [self |-> self, backends |-> bs,
          ev |-> [NoEvents EXCEPT !.probed = TRUE, !.probes = @ + 1, !.returned = self.sandbox]]
    ELSE [self |-> [self EXCEPT !.sandbox = None, !.sandbox_id = Null],
          backends |-> [bs EXCEPT ![self.sandbox] = Kill(@, killOk)],
          ev |-> [NoEvents EXCEPT !.probed = TRUE, !.probes = @ + 1,
                                  !.probe_failed = TRUE,
                                  !.kill_on = self.sandbox,
                                  !.kill_raised = ~killOk]]

HealthCheckDropsUploads(self, bs, killOk) ==
    IF self.sandbox = None
    THEN [self |-> self, backends |-> bs, ev |-> NoEvents]
    ELSE IF ~ListRaises(bs[self.sandbox])
    THEN [self |-> [self EXCEPT !.uploaded_reference_files = EmptyMap],
          backends |-> bs,
          ev |-> [NoEvents EXCEPT !.probed = TRUE, !.probes = @ + 1, !.returned = self.sandbox]]
    ELSE [self |-> [self EXCEPT !.sandbox = None,
                                !.sandbox_id = Null,
                                !.uploaded_reference_files = EmptyMap],
          backends |-> [bs EXCEPT ![self.sandbox] = Kill(@, killOk)],
          ev |-> [NoEvents EXCEPT !.probed = TRUE, !.probes = @ + 1,
                                  !.probe_failed = TRUE,
                                  !.kill_on = self.sandbox,
                                  !.kill_raised = ~killOk]]

\* The health check of lines 390-406 on instance `self`.
HealthCheck(self, bs, killOk) ==
    IF self.sandbox = None
    THEN [self |-> self, backends |-> bs, ev |-> NoEvents]
    ELSE IF ~ListRaises(bs[self.sandbox])
    THEN [self |-> self, backends |-> bs,
          ev |-> [NoEvents EXCEPT !.probed = TRUE, !.probes = @ + 1, !.returned = self.sandbox]]
    ELSE [self |-> [self EXCEPT !.sandbox = None,
                                !.sandbox_id = Null,
                                !.uploaded_reference_files = EmptyMap],
          backends |-> [bs EXCEPT ![self.sandbox] = Kill(@, killOk)],
          ev |-> [NoEvents EXCEPT !.probed = TRUE, !.probes = @ + 1,
                                  !.probe_failed = TRUE,
                                  !.kill_on = self.sandbox,
                                  !.kill_raised = ~killOk]]

CreateSandboxStaleFallbackFlag(self, bs, ev, sdk, key, b9, createOk) ==
    LET h == Len(bs) + 1 IN
    IF E2bConfigured(sdk, key)
    THEN IF createOk
         THEN [self |-> [self EXCEPT !.sandbox = h,
                                     !.sandbox_id = E2bId(h),
                                     !.use_local_fallback = FALSE],
               backends |-> Append(bs, NewBackend("e2b")),
               ev |-> [ev EXCEPT !.e2b_attempted = TRUE, !.creates = @ + 1,
                                 !.created = h, !.returned = h]]
         ELSE [self |-> [self EXCEPT !.sandbox = h,
                                     !.sandbox_id = Str("beta9-fallback")],
               backends |-> Append(bs, NewBackend("beta9")),
               ev |-> [ev EXCEPT !.e2b_attempted = TRUE, !.creates = @ + 1,
                                 !.e2b_failed = TRUE,
                                 !.created = h, !.returned = h]]
    ELSE IF b9
    THEN [self |-> [self EXCEPT !.sandbox = h,
                                !.sandbox_id = Str("beta9-primary"),
                                !.use_local_fallback = TRUE],
          backends |-> Append(bs, NewBackend("beta9")),
          ev |-> [ev EXCEPT !.created = h, !.returned = h]]
    ELSE [self |-> [self EXCEPT !.use_local_fallback = TRUE,
                                !.sandbox = h,
                                !.sandbox_id = Str("docker-fallback")],
          backends |-> Append(bs, NewBackend("docker")),
          ev |-> [ev EXCEPT !.created = h, !.returned = h]]

\* The creation policy of lines 409-442 on an instance that holds no sandbox.
CreateSandbox(self, bs, ev, sdk, key, b9, createOk) ==
    LET h == Len(bs) + 1 IN
    IF E2bConfigured(sdk, key)
    THEN IF createOk
         THEN [self |-> [self EXCEPT !.sandbox = h,
                                     !.sandbox_id = E2bId(h),
                                     !.use_local_fallback = FALSE],
               backends |-> Append(bs, NewBackend("e2b")),
               ev |-> [ev EXCEPT !.e2b_attempted = TRUE, !.creates = @ + 1,
                                 !.created = h, !.returned = h]]
         ELSE [self |-> [self EXCEPT !.use_local_fallback = TRUE,
                                     !.sandbox = h,
                                     !.sandbox_id = Str("beta9-fallback")],
               backends |-> Append(bs, NewBackend("beta9")),
               ev |-> [ev EXCEPT !.e2b_attempted = TRUE, !.creates = @ + 1,
                                 !.e2b_failed = TRUE,
                                 !.created = h, !.returned = h]]
    ELSE IF b9
    THEN [self |-> [self EXCEPT !.sandbox = h,
                                !.sandbox_id = Str("beta9-primary"),
                                !.use_local_fallback = TRUE],
          backends |-> Append(bs, NewBackend("beta9")),
          ev |-> [ev EXCEPT !.created = h, !.returned = h]]
    ELSE [self |-> [self EXCEPT !.use_local_fallback = TRUE,
                                !.sandbox = h,
                                !.sandbox_id = Str("docker-fallback")],
          backends |-> Append(bs, NewBackend("docker")),
          ev |-> [ev EXCEPT !.created = h, !.returned = h]]

\* get_or_create_sandbox with the creation tried again after a failed
\* Sandbox.create.
GetOrCreateSandboxRetrying(self, bs, sdk, key, b9, createOk, killOk) ==
    LET hc == HealthCheck(self, bs, killOk)
        first == CreateSandbox(hc.self, hc.backends, hc.ev, sdk, key, b9, createOk)
    IN IF hc.self.sandbox # None THEN hc
       ELSE IF first.ev.e2b_failed
       THEN CreateSandbox(first.self, first.backends, first.ev, sdk, key, b9, TRUE)
       ELSE first

\* SessionSandbox.get_or_create_sandbox: the new instance, the new backend
\* table and the events of the call.
get_or_create_sandbox(self, bs, sdk, key, b9, createOk, killOk) ==
    LET hc == HealthCheck(self, bs, killOk) IN
    IF hc.self.sandbox = None
    THEN CreateSandbox(hc.self, hc.backends, hc.ev, sdk, key, b9, createOk)
    ELSE hc

\* files.write(remote_path, content) raises from the E2B client and from the
\* Docker adapter (check=True); the Beta9 adapter prints the failure and returns.
WriteRaises(b, transferOk) == ~transferOk /\ b.kind \in {"e2b", "docker"}

NeverMissing(exists) == FALSE

\* Line 457: not os.path.exists(local_path)
Missing(exists) == ~exists

\* Line 461: local_path in self.uploaded_reference_files
NeverUploaded(self, local_path) == FALSE

AlreadyUploaded(self, local_path) == local_path \in DOMAIN self.uploaded_reference_files

\* f"{remote_dir}/{filename}"
RemotePath(local_path, remote_dir) == Append(remote_dir, Basename(local_path))

\* SessionSandbox.upload_reference_file: the new instance and backend table,
\* the events, and what the call returns or raises.
upload_reference_file(self, bs, local_path, remote_dir, exists, sdk, key, b9, createOk, killOk, transferOk) ==
    IF Missing(exists)
    THEN [self |-> self, backends |-> bs, ev |-> NoEvents, write |-> "no",
          response |-> [raised |-> "FileNotFoundError"]]
    ELSE IF AlreadyUploaded(self, local_path)
    THEN [self |-> self, backends |-> bs, ev |-> NoEvents, write |-> "no",
          response |-> [remote_path |-> self.uploaded_reference_files[local_path]]]
    ELSE LET g == get_or_create_sandbox(self, bs, sdk, key, b9, createOk, killOk)
             sandbox == g.self.sandbox
             remote_path == RemotePath(local_path, remote_dir)
         IN IF WriteRaises(g.backends[sandbox], transferOk)
            THEN [self |-> g.self, backends |-> g.backends, ev |-> g.ev,
                  write |-> "raised", response |-> [raised |-> "RuntimeError"]]
            ELSE [self |-> [g.self EXCEPT !.uploaded_reference_files =
                                              MapPut(@, local_path, remote_path)],
                  backends |-> g.backends, ev |-> g.ev,
                  write |-> "returned", response |-> [remote_path |-> remote_path]]

\* cleanup that terminates the backend and goes on holding it.
cleanupKeepsSandbox(self, bs, killOk) ==
    IF self.sandbox # None
    THEN [self |-> self,
          backends |-> [bs EXCEPT ![self.sandbox] = Kill(@, killOk)],
          ev |-> [NoEvents EXCEPT !.kill_on = self.sandbox,
                                  !.kill_raised = ~killOk]]
    ELSE [self |-> self, backends |-> bs, ev |-> NoEvents]

\* SessionSandbox.cleanup.
cleanup(self, bs, killOk) ==
    IF self.sandbox # None
    THEN [self |-> [self EXCEPT !.sandbox = None,
                                !.sandbox_id = Null,
                                !.uploaded_reference_files = EmptyMap],
          backends |-> [bs EXCEPT ![self.sandbox] = Kill(@, killOk)],
          ev |-> [NoEvents EXCEPT !.kill_on = self.sandbox,
                                  !.kill_raised = ~killOk]]
    ELSE [self |-> self, backends |-> bs, ev |-> NoEvents]

\* reset without line 384 (cls._instance = None).
resetKeepsInstance(inst, bs, killOk) ==
    IF inst # <<>> /\ inst[1].sandbox # None
    THEN [instance |-> inst,
          backends |-> [bs EXCEPT ![inst[1].sandbox] = Kill(@, killOk)],
          ev |-> [NoEvents EXCEPT !.kill_on = inst[1].sandbox,
                                  !.kill_raised = ~killOk]]
    ELSE [instance |-> inst, backends |-> bs, ev |-> NoEvents]

resetWithoutKill(inst, bs, killOk) ==
    [instance |-> <<>>, backends |-> bs, ev |-> NoEvents]

\* SessionSandbox.reset (a classmethod on _instance).
reset(inst, bs, killOk) ==
    IF inst # <<>> /\ inst[1].sandbox # None
    THEN [instance |-> <<>>,
          backends |-> [bs EXCEPT ![inst[1].sandbox] = Kill(@, killOk)],
          ev |-> [NoEvents EXCEPT !.kill_on = inst[1].sandbox,
                                  !.kill_raised = ~killOk]]
    ELSE [instance |-> <<>>, backends |-> bs, ev |-> NoEvents]

-----------------------------------------------------------------------------------------------------------------------------------------------------
(* Artifact markers *)

\* The last index of the maximal run of non-whitespace tokens that starts at i.
RECURSIVE RunEnd(_, _)
RunEnd(s, i) ==
    IF i + 1 <= Len(s) /\ s[i + 1] \notin Whitespace THEN RunEnd(s, i + 1) ELSE i

\* re.findall(r'ARTIFACT_PATH:(\S+)', s) from position i on: the leftmost match,
\* then the matches after its end.
RECURSIVE FindAllFrom(_, _)
FindAllFrom(s, i) ==
    IF i > Len(s) THEN <<>>
    ELSE IF s[i] = Marker /\ i + 1 <= Len(s) /\ s[i + 1] \notin Whitespace
    THEN LET k == RunEnd(s, i + 1)
         IN <<SubSeq(s, i + 1, k)>> \o FindAllFrom(s, k + 1)
    ELSE FindAllFrom(s, i + 1)

\* re.search in place of re.findall: the first match only.
FindFirst(s) == IF FindAllFrom(s, 1) = <<>> THEN <<>> ELSE <<Head(FindAllFrom(s, 1))>>

FindAll(s) == FindAllFrom(s, 1)

\* "ARTIFACT_PATH:" in s
HasMarker(s) == \E i \in 1..Len(s) : s[i] = Marker

\* '\n'.join(lines)
RECURSIVE JoinLines(_)
JoinLines(lines) ==
    IF lines = <<>> THEN <<>>
    ELSE IF Len(lines) = 1 THEN lines[1]
    ELSE lines[1] \o <<"\n">> \o JoinLines(Tail(lines))

\* Line 612: logs.stdout is <<"list", lines>> or <<"str", text>>.
StdoutStr(out) == IF out[1] = "list" THEN JoinLines(out[2]) ELSE out[2]

\* os.path.basename of a path given as text.
RECURSIVE PathBasename(_)
PathBasename(p) ==
    IF \E i \in 1..Len(p) : p[i] = "/" THEN PathBasename(Tail(p)) ELSE p

-----------------------------------------------------------------------------
(* execute_code *)

\* os.path.join(global_state["data_path"], "sandbox", current_date)
SandboxDir == <<"data_path", "sandbox", "current_date">>

\* download_artifact's return value: os.path.join(local_dir, basename).
ArtifactLocalPath(remote_path, local_dir) ==
    [dir |-> local_dir, name |-> PathBasename(remote_path)]

\* The loop left at the first download that fails.
RECURSIVE DownloadUntilFailure(_, _, _)
DownloadUntilFailure(paths, oks, i) ==
    IF i > Len(paths) \/ ~oks[i] THEN <<>>
    ELSE <<ArtifactLocalPath(paths[i], SandboxDir)>> \o DownloadUntilFailure(paths, oks, i + 1)

\* The loop of lines 632-637: the local paths of the downloads that succeed,
\* oks[i] telling whether download_artifact returns for the i-th path.
RECURSIVE DownloadEach(_, _, _)
DownloadEach(paths, oks, i) ==
    IF i > Len(paths) THEN <<>>
    ELSE (IF oks[i] THEN <<ArtifactLocalPath(paths[i], SandboxDir)>> ELSE <<>>)
         \o DownloadEach(paths, oks, i + 1)

\* run_code raises only from the E2B client: the Beta9 and Docker adapters
\* return every failure as an ExecutionResult (lines 95-96, 270-274).
RunMayRaise(b) == b.kind = "e2b"

\* beta9_endpoint.run_code: the answer of the deployed endpoint to code that
\* raises an exception (exit_code 1, traceback on stderr, error_message left
\* None) or that does not.
EndpointResponse(raises) ==
    [exit_code |-> IF raises THEN 1 ELSE 0, error |-> Null]

\* The error of the ExecutionResult for code that raised an exception: the
\* endpoint's "error" for Beta9 (line 267), "Process exited with code 1" for
\* Docker (line 92), the error object of the E2B client.
ErrorOfRaise(b) ==
    IF b.kind = "beta9" THEN EndpointResponse(TRUE).error ELSE Str("boom")

\* The executions a backend can return: a dead backend returns no success,
\* E2B prints a list of lines and reports an error object, never "".
\* x.raises tells that the code ran and raised an exception.
Executions(b) ==
    { x \in [stdout : IF b.kind = "e2b"
                       THEN { <<"list", l>> : l \in StdoutLists }
                       ELSE { <<"str", t>> : t \in StdoutTexts },
              stderr : Stderrs,
              error : Errors,
              raises : BOOLEAN] :
        /\ ~b.alive => x.error # Null
        /\ b.kind = "e2b" => x.error # Str("")
        /\ x.raises => (b.alive /\ x.error = ErrorOfRaise(b)) }

Truthy(error) == error # Null /\ error # Str("")

StrOf(error) == IF error = Null THEN Str("None") ELSE error

NoCall ==
    [op |-> "import", code |-> <<>>, language |-> <<>>, ev |-> NoEvents,
     local_path |-> <<>>, remote_dir |-> <<>>, exists |-> FALSE, write |-> "no",
     transfer |-> "no", remote_path |-> <<>>, read |-> "no", disk |-> "no",
     touched |-> FALSE, run |-> "no", error |-> Null, stdout_str |-> <<>>,
     stderr |-> "", raises |-> FALSE, paths |-> <<>>, entries |-> <<>>,
     artifact_paths |-> <<>>, global_state |-> "unavailable",
     download_calls |-> <<>>, download_ok |-> <<>>, makedirs |-> "no",
     terminated |-> {}]

\* The response of lines 639-663.
Result(self, x, downloaded_artifacts) ==
    LET success == x.error = Null
        base == [success |-> success,
                 exit_code |-> IF success THEN 0 ELSE 1,
                 stdout |-> IF success THEN <<"logs", x.stdout, x.stderr>> ELSE Str(""),
                 stderr |-> IF Truthy(x.error) THEN StrOf(x.error) ELSE Str(""),
                 sandbox_id |-> self.sandbox_id,
                 message |-> <<success, self.sandbox_id,
                               self.uploaded_reference_files, downloaded_artifacts>>]
    IN IF downloaded_artifacts # <<>>
       THEN [k \in DOMAIN base \cup {"downloaded_artifacts"} |->
                IF k = "downloaded_artifacts" THEN downloaded_artifacts ELSE base[k]]
       ELSE base

\* Line 577: language.lower().strip()
Normalize(language) == Strip(Lower(language))

ValidateCodeOnly(code, language) ==
    IF code = <<>> THEN <<[error |-> "Code cannot be empty"]>> ELSE <<>>

\* Lines 573-582: <<the response to a rejected input>>, or <<>>.
Validate(code, language) ==
    IF code = <<>> THEN <<[error |-> "Code cannot be empty"]>>
    ELSE IF Normalize(language) # Python
    THEN <<[error |-> "Language not supported", supported_languages |-> <<Python>>]>>
    ELSE <<>>

\* The scan without the test of success.
ArtifactPathsOfAnyExecution(x) ==
    IF HasMarker(StdoutStr(x.stdout)) THEN FindAll(StdoutStr(x.stdout)) ELSE <<>>

\* Lines 606-619: the paths scanned from the stdout of execution x.
ArtifactPaths(x) ==
    IF x.error = Null /\ HasMarker(StdoutStr(x.stdout))
    THEN FindAll(StdoutStr(x.stdout))
    ELSE <<>>

\* Line 621 without the test of data_path.
DownloadingWithoutDataPath(artifact_paths, gs) == artifact_paths # <<>>

\* Line 621: artifact_paths and global_state.get("data_path").
Downloading(artifact_paths, gs) == artifact_paths # <<>> /\ gs = "data_path"

\* The global state is consulted only when paths were scanned (line 621).
GlobalStatesFor(artifact_paths) ==
    IF artifact_paths # <<>> THEN GlobalStates ELSE {"unavailable"}

RunRaisedPropagates == [raised |-> "Exception"]

\* Lines 600-604.
RunRaisedResponse == [success |-> FALSE, error |-> "Sandbox execution failed"]

\* Lines 665-669.
UnexpectedErrorResponse ==
    [success |-> FALSE, error |-> "Unexpected error during sandbox execution"]

\* What Sandbox.create and kill() can do during one get_or_create_sandbox:
\* an outcome is chosen only for a call that is made, and only the E2B
\* client's kill can raise.
GocInputs(self, bs, sdk, key) ==
    LET probeFails == self.sandbox # None /\ ListRaises(bs[self.sandbox])
        creates == self.sandbox = None \/ probeFails
    IN [createOk : IF creates /\ E2bConfigured(sdk, key) THEN BOOLEAN ELSE {TRUE},
        killOk : IF probeFails THEN BOOLEAN ELSE {TRUE}]

\* The outcomes of the calls upload_reference_file makes: none when it stops
\* before get_or_create_sandbox.
UploadInputs(self, bs, local_path, exists, sdk, key) ==
    IF exists /\ ~AlreadyUploaded(self, local_path)
    THEN { [createOk |-> gi.createOk, killOk |-> gi.killOk, transferOk |-> t] :
             gi \in GocInputs(self, bs, sdk, key), t \in BOOLEAN }
    ELSE { [createOk |-> TRUE, killOk |-> TRUE, transferOk |-> TRUE] }

\* What became of the transfer behind files.write: "no" when write was not
\* called, else whether the content reached the backend.
Transfer(write, transferOk) ==
    IF write = "no" THEN "no" ELSE IF transferOk THEN "ok" ELSE "failed"

KillInputs(self, bs) ==
    IF self.sandbox # None /\ bs[self.sandbox].kind = "e2b" THEN BOOLEAN ELSE {TRUE}

-----------------------------------------------------------------------------
(* upload_task_reference_files *)

\* The lists of local paths a task may come with.
TaskFileLists == UNION { [1..n -> LocalPaths] : n \in 0..MaxFiles }

\* The element of a one-element set: TheOne({ e(x) : x \in {v} }) is e(v),
\* with v computed once.
TheOne(S) == CHOOSE x \in S : TRUE

\* What became of one entry, from the result r of its upload_reference_file.
Entry(r, exists, ok) ==
    [exists |-> exists, write |-> r.write, transfer |-> Transfer(r.write, ok),
     raised |-> "raised" \in DOMAIN r.response]

\* The loop of lines 696-702 from entry i on: each entry is uploaded in its
\* own try, exists[i] telling whether the local file is there and oks[i]
\* whether the transfer behind files.write works.
RECURSIVE UploadEach(_, _, _, _, _, _)
UploadEach(st, paths, exists, oks, env, i) ==
    IF i > Len(paths) THEN st
    ELSE TheOne({ UploadEach([self |-> r.self, backends |-> r.backends,
                              remote_paths |-> IF "raised" \in DOMAIN r.response
                                               THEN st.remote_paths
                                               ELSE Append(st.remote_paths, r.response.remote_path),
                              entries |-> Append(st.entries, Entry(r, exists[i], oks[i]))],
                             paths, exists, oks, env, i + 1) :
                    r \in { upload_reference_file(st.self, st.backends, paths[i], DefaultRemoteDir, exists[i], env.sdk, env.key, env.b9, TRUE, TRUE, oks[i]) } })

\* upload_task_reference_files(reference_file_paths): the new singleton and
\* backend table, the events of its get_or_create_sandbox call, what became
\* of each entry, and the list it returns.
upload_task_reference_files(inst, bs, paths, exists, oks, sdk, key, b9, createOk, killOk) ==
    IF paths = <<>>
    THEN [instance |-> inst, backends |-> bs, ev |-> NoEvents, entries |-> <<>>,
          response |-> [remote_paths |-> <<>>]]
    ELSE LET session_sandbox == get_instance(inst)[1]
             g == get_or_create_sandbox(session_sandbox, bs, sdk, key, b9, createOk, killOk)
             st == UploadEach([self |-> g.self, backends |-> g.backends,
                               remote_paths |-> <<>>, entries |-> <<>>],
                              paths, exists, oks, [sdk |-> sdk, key |-> key, b9 |-> b9], 1)
         IN [instance |-> <<st.self>>, backends |-> st.backends, ev |-> g.ev,
             entries |-> st.entries, response |-> [remote_paths |-> st.remote_paths]]

\* The outcomes that matter to a call: those of the one get_or_create_sandbox
\* that can create, none for an empty list.
TaskInputs(inst, bs, paths, sdk, key) ==
    IF paths = <<>> THEN { [createOk |-> TRUE, killOk |-> TRUE] }
    ELSE GocInputs(get_instance(inst)[1], bs, sdk, key)

-----------------------------------------------------------------------------
(* File contents *)

\* The bytes of a local reference file: empty, text, and binary with a NUL
\* and a byte that is not valid UTF-8.
Contents == { <<>>, <<65>>, <<0, 255>> }

\* Python values that carry file content.
Bytes(b) == <<"bytes", b>>
Text(t) == <<"text", t>>

\* f"{remote_dir}/{filename}" as text: "/" before every component.
RECURSIVE PathText(_)
PathText(path) ==
    IF path = <<>> THEN <<>> ELSE <<"/", Head(path)>> \o PathText(Tail(path))

\* value.encode('utf-8'): defined on str, an AttributeError on bytes. The
\* texts of the model are ASCII, one byte per character.
Encode(value) ==
    IF value[1] = "text" THEN [value |-> Bytes(value[2])]
    ELSE [raised |-> "AttributeError"]

\* files.write(path, content) on backend b: the store afterwards. The three
\* backends store the bytes they are given when the transfer works.
FilesWrite(b, remote, path, content, transferOk) ==
    IF transferOk THEN MapPut(remote, path, content[2]) ELSE remote

\* DockerFiles.read: `cat` of a missing file or in a stopped container exits
\* non-zero; its stdout is captured as bytes (no text=True), which line 173
\* then encodes.
DockerFilesRead(b, remote, path, format) ==
    IF ~b.alive \/ path \notin DOMAIN remote THEN [raised |-> "FileNotFoundError"]
    ELSE IF format = "bytes" THEN Encode(Bytes(remote[path]))
    ELSE [value |-> Bytes(remote[path])]

\* Beta9Files.read: every failure is raised as FileNotFoundError.
Beta9FilesRead(b, remote, path, format) ==
    IF ~b.alive \/ path \notin DOMAIN remote THEN [raised |-> "FileNotFoundError"]
    ELSE IF format = "bytes" THEN [value |-> Bytes(remote[path])]
    ELSE [value |-> Text(remote[path])]

\* The E2B client's files.read(path, format="bytes"): a bytearray, or the
\* client's exception.
E2bFilesRead(b, remote, path, format) ==
    IF ~b.alive \/ path \notin DOMAIN remote THEN [raised |-> "SandboxException"]
    ELSE [value |-> Bytes(remote[path])]

\* self.sandbox.files.read(remote_path, format)
FilesRead(b, remote, path, format) ==
    CASE b.kind = "docker" -> DockerFilesRead(b, remote, path, format)
      [] b.kind = "beta9" -> Beta9FilesRead(b, remote, path, format)
      [] OTHER -> E2bFilesRead(b, remote, path, format)

\* SessionSandbox.download_artifact: the local directory afterwards, what
\* files.read did, whether the local file was written, and what the call
\* returns or raises.
download_artifact(self, bs, fs, remote_path, local_dir, diskOk) ==
    IF self.sandbox = None
    THEN [local |-> fs.local, read |-> "no", disk |-> "no",
          response |-> [raised |-> "RuntimeError"]]
    ELSE LET content_bytes == FilesRead(bs[self.sandbox], fs.remote, remote_path, "bytes")
             local_path == ArtifactLocalPath(PathText(remote_path), local_dir)
         IN IF "raised" \in DOMAIN content_bytes
            THEN [local |-> fs.local, read |-> content_bytes.raised, disk |-> "no",
                  response |-> [raised |-> "RuntimeError"]]
            ELSE IF ~diskOk
            THEN [local |-> fs.local, read |-> "returned", disk |-> "failed",
                  response |-> [raised |-> "RuntimeError"]]
            ELSE [local |-> MapPut(fs.local, local_path, content_bytes.value[2]),
                  read |-> "returned", disk |-> "ok",
                  response |-> [local_path |-> local_path]]

\* The remote paths an upload can write.
RemotePaths == { RemotePath(l, DefaultRemoteDir) : l \in LocalPaths }

\* The local write of download_artifact can fail only when it is reached.
DiskInputs(self, bs, fs, remote_path) ==
    IF /\ self.sandbox # None
       /\ "value" \in DOMAIN FilesRead(bs[self.sandbox], fs.remote, remote_path, "bytes")
    THEN BOOLEAN ELSE {TRUE}

-----------------------------------------------------------------------------
(* The state after import *)

NoResponse == [raised |-> "nothing"]

\* No file has been written: remote is the content of the held backend by
\* remote path, sent the bytes given to the uploads that returned while that
\* backend was held, local the content of the download directory.
NoFiles == [remote |-> EmptyMap, sent |-> EmptyMap, local |-> EmptyMap]

\* No execute_code call is in progress.
NoThread == <<>>

\* The result of a run that has not returned yet.
NoExecution == [stdout |-> <<"str", <<>>>>, stderr |-> "", error |-> Null, raises |-> FALSE]

Init ==
    /\ Sandbox \in BOOLEAN
    /\ beta9 \in BOOLEAN
    /\ e2b_key \in ApiKeys
    /\ instance = <<>>
    /\ backends = <<>>
    /\ returned_paths = EmptyMap
    /\ last = NoCall
    /\ response = NoResponse
    /\ files = NoFiles
    /\ inflight = NoThread

Env == <<Sandbox, beta9, e2b_key>>

\* The backend the manager holds, None when there is no instance.
Held(inst) == IF inst = <<>> THEN None ELSE inst[1].sandbox

\* The upload cache of the manager, empty when there is no instance.
Uploads(inst) == IF inst = <<>> THEN EmptyMap ELSE inst[1].uploaded_reference_files

\* The call in progress after a reset() or cleanup() with events ev ran on
\* another thread: the backend that was killed meanwhile is noted.
Terminating(thread, ev) ==
    IF thread = NoThread \/ ev.kill_on = None THEN thread
    ELSE <<[thread[1] EXCEPT !.terminated = @ \cup {ev.kill_on}]>>

\* Line 592 and line 384: execute_code keeps its reference session_sandbox
\* to the object that was the singleton when it started; once reset() has
\* dropped the singleton, that object is no longer the one the class holds
\* and keeps the fields it had.
Detached(thread, inst, inst_after) ==
    IF thread = NoThread \/ ~thread[1].attached \/ inst_after # <<>> THEN thread
    ELSE <<[thread[1] EXCEPT !.attached = FALSE, !.session_sandbox = inst[1]]>>

\* The SessionSandbox object the call in progress refers to.
SessionObject(thread) ==
    IF thread.attached THEN instance[1] ELSE thread.session_sandbox

\* returned_paths is kept while the same backend stays held.
KeepReturned(inst) == IF Held(inst) = Held(instance) THEN returned_paths ELSE EmptyMap

-----------------------------------------------------------------------------
(* Operations *)

\* execute_code(code, language)
ExecuteCode ==
    /\ \E code \in Codes, language \in Languages :
         LET v == Validate(code, language)
             call == [NoCall EXCEPT !.op = "execute_code", !.code = code,
                                   !.language = Normalize(language)]
         IN
         IF v # <<>>
         THEN /\ response' = v[1]
              /\ last' = call
              /\ UNCHANGED <<instance, backends, returned_paths>>
         ELSE
         LET session_sandbox == get_instance(instance)[1] IN
         \E gi \in GocInputs(session_sandbox, backends, Sandbox, e2b_key) :
           LET g == get_or_create_sandbox(session_sandbox, backends, Sandbox, e2b_key,
                                          beta9, gi.createOk, gi.killOk)
               sandbox == g.backends[g.self.sandbox]
               got == [call EXCEPT !.ev = g.ev, !.touched = TRUE]
           IN
           /\ Len(g.backends) <= MaxBackends
           /\ instance' = <<g.self>>
           /\ backends' = g.backends
           /\ returned_paths' = KeepReturned(<<g.self>>)
           /\ \/ /\ RunMayRaise(sandbox)
                 /\ response' = RunRaisedResponse
                 /\ last' = [got EXCEPT !.run = "raised"]
              \/ \E x \in Executions(sandbox) :
                   LET artifact_paths == ArtifactPaths(x)
                       ran == [got EXCEPT !.run = "returned", !.error = x.error,
                                          !.stdout_str = StdoutStr(x.stdout),
                                          !.stderr = x.stderr,
                                          !.raises = x.raises,
                                          !.artifact_paths = artifact_paths]
                   IN
                   \E global_state \in GlobalStatesFor(artifact_paths) :
                   IF Downloading(artifact_paths, global_state)
                   THEN \/ /\ response' = UnexpectedErrorResponse
                           /\ last' = [ran EXCEPT !.global_state = global_state,
                                                  !.makedirs = "raised"]
                        \/ \E oks \in [1..Len(artifact_paths) -> BOOLEAN] :
                             /\ response' =
                                    Result(g.self, x, DownloadEach(artifact_paths, oks, 1))
                             /\ last' = [ran EXCEPT !.global_state = global_state,
                                                    !.makedirs = "ok",
                                                    !.download_calls = artifact_paths,
                                                    !.download_ok = oks]
                   ELSE /\ response' = Result(g.self, x, <<>>)
                        /\ last' = [ran EXCEPT !.global_state = global_state]
    /\ UNCHANGED <<Env, files, inflight>>

\* SessionSandbox.get_instance().get_or_create_sandbox()
GetOrCreateSandbox ==
    /\ LET self == get_instance(instance)[1] IN
       \E gi \in GocInputs(self, backends, Sandbox, e2b_key) :
         LET r == get_or_create_sandbox(self, backends, Sandbox, e2b_key, beta9,
                                        gi.createOk, gi.killOk)
         IN /\ Len(r.backends) <= MaxBackends
            /\ instance' = <<r.self>>
            /\ backends' = r.backends
            /\ returned_paths' = KeepReturned(<<r.self>>)
            /\ last' = [NoCall EXCEPT !.op = "get_or_create_sandbox", !.ev = r.ev,
                                      !.touched = TRUE]
            /\ response' = [sandbox |-> r.ev.returned]
    /\ UNCHANGED <<Env, files, inflight>>

\* SessionSandbox.get_instance().upload_reference_file(local_path, remote_dir)
UploadReferenceFile ==
    /\ LET self == get_instance(instance)[1] IN
       \E local_path \in LocalPaths, remote_dir \in RemoteDirs, exists \in BOOLEAN :
       \E in \in UploadInputs(self, backends, local_path, exists, Sandbox, e2b_key) :
         LET r == upload_reference_file(self, backends, local_path, remote_dir, exists,
                                        Sandbox, e2b_key, beta9,
                                        in.createOk, in.killOk, in.transferOk)
             kept == KeepReturned(<<r.self>>)
         IN /\ Len(r.backends) <= MaxBackends
            /\ (r.write # "no" /\ in.transferOk) => r.backends[r.self.sandbox].alive
            /\ instance' = <<r.self>>
            /\ backends' = r.backends
            /\ returned_paths' =
                  IF "remote_path" \in DOMAIN r.response /\ local_path \notin DOMAIN kept
                  THEN MapPut(kept, local_path, r.response.remote_path)
                  ELSE kept
            /\ last' = [NoCall EXCEPT !.op = "upload_reference_file", !.ev = r.ev,
                                      !.local_path = local_path,
                                      !.remote_dir = remote_dir,
                                      !.exists = exists, !.write = r.write,
                                      !.transfer = Transfer(r.write, in.transferOk),
                                      !.touched = TRUE]
            /\ response' = r.response
    /\ UNCHANGED <<Env, files, inflight>>

\* SessionSandbox.get_instance().cleanup()
Cleanup ==
    /\ LET self == get_instance(instance)[1] IN
       \E killOk \in KillInputs(self, backends) :
         LET r == cleanup(self, backends, killOk)
         IN /\ instance' = <<r.self>>
            /\ backends' = r.backends
            /\ returned_paths' = KeepReturned(<<r.self>>)
            /\ last' = [NoCall EXCEPT !.op = "cleanup", !.ev = r.ev, !.touched = TRUE]
            /\ response' = [returned |-> "None"]
            /\ inflight' = Terminating(inflight, r.ev)
    /\ UNCHANGED <<Env, files>>

\* SessionSandbox.reset() / cleanup_session_sandbox()
Reset ==
    /\ \E killOk \in KillInputs(get_instance(instance)[1], backends) :
         LET r == reset(instance, backends, killOk)
         IN /\ instance' = r.instance
            /\ backends' = r.backends
            /\ returned_paths' = KeepReturned(r.instance)
            /\ last' = [NoCall EXCEPT !.op = "reset", !.ev = r.ev, !.touched = TRUE]
            /\ response' = [returned |-> "None"]
            /\ inflight' = Detached(Terminating(inflight, r.ev), instance, r.instance)
    /\ UNCHANGED <<Env, files>>

\* The environment: the held backend dies or becomes unreachable (sandbox
\* timeout, container stopped, gateway down).
BackendDies ==
    /\ instance # <<>>
    /\ instance[1].sandbox # None
    /\ backends[instance[1].sandbox].alive
    /\ backends' = [backends EXCEPT ![instance[1].sandbox].alive = FALSE]
    /\ last' = [NoCall EXCEPT !.op = "backend_dies"]
    /\ UNCHANGED <<Env, instance, returned_paths, response, files, inflight>>

\* upload_reference_file(local_path) of a local file that holds `content`,
\* with the files of the backend followed.
UploadBytes ==
    /\ LET self == get_instance(instance)[1] IN
       \E local_path \in LocalPaths, content \in Contents :
       \E in \in UploadInputs(self, backends, local_path, TRUE, Sandbox, e2b_key) :
         LET r == upload_reference_file(self, backends, local_path, DefaultRemoteDir,
                                        TRUE, Sandbox, e2b_key, beta9,
                                        in.createOk, in.killOk, in.transferOk)
             kept == KeepReturned(<<r.self>>)
             fs == IF Held(<<r.self>>) = Held(instance) THEN files
                   ELSE [files EXCEPT !.remote = EmptyMap, !.sent = EmptyMap]
             remote_path == RemotePath(local_path, DefaultRemoteDir)
         IN /\ Len(r.backends) <= MaxBackends
            /\ (r.write # "no" /\ in.transferOk) => r.backends[r.self.sandbox].alive
            /\ instance' = <<r.self>>
            /\ backends' = r.backends
            /\ returned_paths' =
                  IF "remote_path" \in DOMAIN r.response /\ local_path \notin DOMAIN kept
                  THEN MapPut(kept, local_path, r.response.remote_path)
                  ELSE kept
            /\ files' =
                  [fs EXCEPT
                     !.remote = IF r.write # "no"
                                THEN FilesWrite(r.backends[r.self.sandbox], @, remote_path,
                                                Bytes(content), in.transferOk)
                                ELSE @,
                     !.sent = IF r.write = "returned"
                              THEN MapPut(@, remote_path, content) ELSE @]
            /\ last' = [NoCall EXCEPT !.op = "upload_reference_file", !.ev = r.ev,
                                      !.local_path = local_path,
                                      !.remote_dir = DefaultRemoteDir,
                                      !.exists = TRUE, !.write = r.write,
                                      !.transfer = Transfer(r.write, in.transferOk),
                                      !.touched = TRUE]
            /\ response' = r.response
    /\ UNCHANGED <<Env, inflight>>

\* SessionSandbox.get_instance().download_artifact(remote_path, local_dir)
DownloadArtifact ==
    /\ LET self == get_instance(instance)[1] IN
       \E remote_path \in RemotePaths :
       \E diskOk \in DiskInputs(self, backends, files, remote_path) :
         LET r == download_artifact(self, backends, files, remote_path, SandboxDir, diskOk)
         IN /\ instance' = <<self>>
            /\ files' = [files EXCEPT !.local = r.local]
            /\ last' = [NoCall EXCEPT !.op = "download_artifact",
                                      !.remote_path = remote_path,
                                      !.read = r.read, !.disk = r.disk,
                                      !.touched = TRUE]
            /\ response' = r.response
    /\ UNCHANGED <<Env, backends, returned_paths, inflight>>

Next ==
    \/ ExecuteCode
    \/ GetOrCreateSandbox
    \/ UploadReferenceFile
    \/ Cleanup
    \/ Reset
    \/ BackendDies

Spec == Init /\ [][Next]_vars

\* The session with its file contents followed: uploads, downloads and the
\* death of the backend.
FilesNext ==
    \/ UploadBytes
    \/ DownloadArtifact
    \/ BackendDies

FilesSpec == Init /\ [][FilesNext]_vars

\* upload_task_reference_files(reference_file_paths)
UploadTaskReferenceFiles ==
    /\ \E paths \in TaskFileLists :
       \E exists \in [1..Len(paths) -> BOOLEAN] :
       \E oks \in { f \in [1..Len(paths) -> BOOLEAN] : \A i \in 1..Len(paths) : ~exists[i] => f[i] } :
       \E in \in TaskInputs(instance, backends, paths, Sandbox, e2b_key) :
       \E r \in { upload_task_reference_files(instance, backends, paths, exists, oks, Sandbox, e2b_key, beta9, in.createOk, in.killOk) } :
         LET kept == KeepReturned(r.instance)
             got == { paths[i] : i \in { j \in 1..Len(paths) : ~r.entries[j].raised } }
         IN /\ Len(r.backends) <= MaxBackends
            /\ \A i \in 1..Len(paths) :
                 IF r.entries[i].write = "no" THEN oks[i]
                 ELSE oks[i] => r.backends[Held(r.instance)].alive
            /\ instance' = r.instance
            /\ backends' = r.backends
            /\ returned_paths' =
                  [l \in DOMAIN kept \cup got |->
                      IF l \in DOMAIN kept THEN kept[l] ELSE Uploads(r.instance)[l]]
            /\ last' = [NoCall EXCEPT !.op = "upload_task_reference_files",
                                      !.ev = r.ev, !.paths = paths,
                                      !.entries = r.entries,
                                      !.touched = paths # <<>>]
            /\ response' = r.response
    /\ UNCHANGED <<Env, files, inflight>>

\* The session as a task runner drives it: reference files are uploaded in
\* lists and one by one, the backend may die, and the session is reset.
TaskNext ==
    \/ UploadTaskReferenceFiles
    \/ UploadReferenceFile
    \/ BackendDies
    \/ Reset

TaskSpec == Init /\ [][TaskNext]_vars

\* The tokens of the texts scanned on their own: the marker, two path
\* characters and two kinds of whitespace.
ScanAlphabet == { Marker, "a", "b", " ", "\n" }

ScanTexts == UNION { [1..n -> ScanAlphabet] : n \in 0..MaxTextLen }

\* The scan of lines 616-619 applied to the stdout of a successful execution.
ScanInit ==
    /\ Sandbox = FALSE
    /\ beta9 = FALSE
    /\ e2b_key = Null
    /\ instance = <<>>
    /\ backends = <<>>
    /\ returned_paths = EmptyMap
    /\ \E stdout_str \in ScanTexts :
         last = [NoCall EXCEPT !.op = "scan", !.stdout_str = stdout_str]
    /\ response = NoResponse
    /\ files = NoFiles
    /\ inflight = NoThread

ScanStdout ==
    /\ last.op = "scan"
    /\ last.run = "no"
    /\ last' = [last EXCEPT
                  !.run = "returned",
                  !.artifact_paths = ArtifactPaths([stdout |-> <<"str", last.stdout_str>>,
                                                    stderr |-> "warning",
                                                    error |-> Null,
                                                    raises |-> FALSE])]
    /\ UNCHANGED <<Env, instance, backends, returned_paths, response, files, inflight>>

ScanNext == ScanStdout

ScanSpec == ScanInit /\ [][ScanNext]_vars

\* execute_code on one thread while reset() and cleanup() run on another: the
\* call is followed statement by statement from the point where it has
\* obtained the backend.

\* Lines 573-597: validation, get_instance() and get_or_create_sandbox().
ExecuteCodeBegin ==
    /\ inflight = NoThread
    /\ \E code \in Codes, language \in Languages :
         /\ Validate(code, language) = <<>>
         /\ LET session_sandbox == get_instance(instance)[1] IN
            \E gi \in GocInputs(session_sandbox, backends, Sandbox, e2b_key) :
            \E g \in { get_or_create_sandbox(session_sandbox, backends, Sandbox, e2b_key,
                                             beta9, gi.createOk, gi.killOk) } :
              /\ Len(g.backends) <= MaxBackends
              /\ instance' = <<g.self>>
              /\ backends' = g.backends
              /\ returned_paths' = KeepReturned(<<g.self>>)
              /\ inflight' = <<[pc |-> "run",
                                attached |-> TRUE,
                                session_sandbox |-> g.self,
                                sandbox |-> g.self.sandbox,
                                call |-> [NoCall EXCEPT !.op = "execute_code",
                                                        !.code = code,
                                                        !.language = Normalize(language),
                                                        !.ev = g.ev,
                                                        !.touched = TRUE],
                                x |-> NoExecution,
                                i |-> 1,
                                downloaded_artifacts |-> <<>>,
                                terminated |-> {}]>>
    /\ UNCHANGED <<Env, files, last, response>>

\* Lines 599-629: sandbox.run_code on the local reference, the scan of the
\* stdout and os.makedirs; the call returns here when run_code or makedirs
\* raises.
ExecuteCodeRun ==
    /\ inflight # NoThread
    /\ inflight[1].pc = "run"
    /\ LET thread == inflight[1]
           sandbox == backends[thread.sandbox]
       IN
       \/ /\ RunMayRaise(sandbox)
          /\ response' = RunRaisedResponse
          /\ last' = [thread.call EXCEPT !.run = "raised",
                                         !.terminated = thread.terminated]
          /\ inflight' = NoThread
       \/ \E x \in Executions(sandbox) :
          \E artifact_paths \in { ArtifactPaths(x) } :
          \E global_state \in GlobalStatesFor(artifact_paths) :
            LET ran == [thread.call EXCEPT !.run = "returned", !.error = x.error,
                                          !.stdout_str = StdoutStr(x.stdout),
                                          !.stderr = x.stderr,
                                          !.raises = x.raises,
                                          !.artifact_paths = artifact_paths,
                                          !.global_state = global_state]
            IN
            IF Downloading(artifact_paths, global_state)
            THEN \/ /\ response' = UnexpectedErrorResponse
                    /\ last' = [ran EXCEPT !.makedirs = "raised",
                                           !.terminated = thread.terminated]
                    /\ inflight' = NoThread
                 \/ /\ inflight' = <<[thread EXCEPT
                                         !.pc = "download", !.x = x,
                                         !.call = [ran EXCEPT !.makedirs = "ok"]]>>
                    /\ UNCHANGED <<last, response>>
            ELSE /\ inflight' = <<[thread EXCEPT !.pc = "result", !.x = x,
                                                 !.call = ran]>>
                 /\ UNCHANGED <<last, response>>
    /\ UNCHANGED <<Env, files, instance, backends, returned_paths>>

\* Lines 631-637: one turn of the download loop. download_artifact reads
\* self.sandbox of the object session_sandbox refers to; it raises, and the
\* loop goes on, when that is None or the backend cannot deliver the file.
ExecuteCodeDownload ==
    /\ inflight # NoThread
    /\ inflight[1].pc = "download"
    /\ LET thread == inflight[1]
           self == SessionObject(thread)
           path == thread.call.artifact_paths[thread.i]
           last_turn == thread.i = Len(thread.call.artifact_paths)
       IN
       \E ok \in IF self.sandbox = None THEN {FALSE}
                  ELSE IF ~backends[self.sandbox].alive THEN {FALSE} ELSE BOOLEAN :
         inflight' = <<[thread EXCEPT
                          !.pc = IF last_turn THEN "result" ELSE "download",
                          !.i = @ + 1,
                          !.downloaded_artifacts =
                              @ \o (IF ok THEN <<ArtifactLocalPath(path, SandboxDir)>>
                                          ELSE <<>>),
                          !.call = [@ EXCEPT !.download_calls = Append(@, path),
                                             !.download_ok = Append(@, ok)]]>>
    /\ UNCHANGED <<Env, files, instance, backends, returned_paths, last, response>>

\* Lines 639-663: the result is built from the fields of the object
\* session_sandbox refers to, and returned.
ExecuteCodeReturn ==
    /\ inflight # NoThread
    /\ inflight[1].pc = "result"
    /\ LET thread == inflight[1] IN
       /\ response' = Result(SessionObject(thread), thread.x,
                             thread.downloaded_artifacts)
       /\ last' = [thread.call EXCEPT !.terminated = thread.terminated]
    /\ inflight' = NoThread
    /\ UNCHANGED <<Env, files, instance, backends, returned_paths>>

RaceNext ==
    \/ ExecuteCodeBegin
    \/ ExecuteCodeRun
    \/ ExecuteCodeDownload
    \/ ExecuteCodeReturn
    \/ Reset
    \/ Cleanup

RaceSpec == Init /\ [][RaceNext]_vars

-----------------------------------------------------------------------------
(* Properties *)

IsExecute == last.op = "execute_code"

Rejected(call) ==
    call.op = "execute_code" /\ (call.code = <<>> \/ call.language # Python)

Accepted(call) ==
    call.op = "execute_code" /\ call.code # <<>> /\ call.language = Python

\* The calls that go through get_or_create_sandbox.
CallsGetOrCreate(call) ==
    call.op \in {"execute_code", "get_or_create_sandbox", "upload_reference_file"}

\* C1: a call of execute_code with non-empty code and language python does not
\* raise and returns a response that has the key success, whatever the backend
\* did during the call.
C1_AcceptedCallReturnsSuccessKey ==
    Accepted(last) =>
        /\ "raised" \notin DOMAIN response
        /\ "success" \in DOMAIN response

C1_Witness_RunRaised ==
    /\ Accepted(last)
    /\ last.run = "raised"
    /\ "success" \in DOMAIN response
    /\ ~response.success

\* C2: a call of execute_code that is rejected (empty code, or a language that
\* is not python after lower-casing and trimming) returns a response that
\* carries success = false.
C2_RejectedCallCarriesSuccessFalse ==
    Rejected(last) =>
        /\ "success" \in DOMAIN response
        /\ response.success = FALSE

\* C3: a rejected call of execute_code leaves the manager as it was: the
\* singleton, the held backend, every backend object and the upload cache.
C3_RejectedCallTouchesNothing ==
    [][Rejected(last') =>
          /\ instance' = instance
          /\ backends' = backends
          /\ ~last'.touched]_vars

C3_Witness_RejectedWhileHolding ==
    /\ Rejected(last)
    /\ last.code # <<>>
    /\ Held(instance) # None
    /\ Uploads(instance) # EmptyMap

\* C4: every response execute_code returns after run_code returned marks
\* success exactly when the execution's error is null, with exit_code 0 on
\* success and 1 otherwise.
C4_ResponseAfterRunMatchesError ==
    (IsExecute /\ last.run = "returned") =>
        /\ "success" \in DOMAIN response
        /\ response.success = (last.error = Null)
        /\ "exit_code" \in DOMAIN response
        /\ response.exit_code = (IF response.success THEN 0 ELSE 1)

\* C5: when Sandbox.create fails inside get_or_create_sandbox the call returns
\* a new Beta9 backend, and the instance describes that backend: sandbox_id
\* beta9-fallback, use_local_fallback set.
C5_FailedCloudCreationFallsBackToBeta9 ==
    last.ev.e2b_failed =>
        /\ Held(instance) # None
        /\ Held(instance) = last.ev.created
        /\ last.ev.returned = Held(instance)
        /\ backends[Held(instance)].kind = "beta9"
        /\ ~backends[Held(instance)].killed
        /\ instance[1].sandbox_id = Str("beta9-fallback")
        /\ instance[1].use_local_fallback

C5_Witness_Fallback ==
    /\ last.op = "get_or_create_sandbox"
    /\ last.ev.e2b_failed
    /\ response.sandbox = Held(instance)
    /\ backends[Held(instance)].kind = "beta9"

\* The kind of the backend the latest call created.
CreatedKind == backends[last.ev.created].kind

\* C6 as claimed: the kind created is decided by the credential, the outcome
\* of the cloud creation and the serverless client alone.
C6_KindDecidedByCredentialAndClient ==
    last.ev.created # None =>
        /\ (KeyUsable(e2b_key) /\ ~last.ev.e2b_failed) => CreatedKind = "e2b"
        /\ CreatedKind = "beta9" =>
              (last.ev.e2b_failed \/ (~KeyUsable(e2b_key) /\ beta9))
        /\ CreatedKind = "docker" => (~KeyUsable(e2b_key) /\ ~beta9)

\* C6 as amended: the cloud is attempted only if the E2B SDK is installed and
\* the credential is usable. The kind created is e2b if it is attempted and
\* succeeds, beta9 if it is attempted and fails or if it is not attempted and
\* the beta9 module is installed, docker otherwise.
C6_KindDecidedBySdkCredentialAndClient ==
    last.ev.created # None =>
        /\ last.ev.e2b_attempted = (Sandbox /\ KeyUsable(e2b_key))
        /\ last.ev.e2b_failed => last.ev.e2b_attempted
        /\ CreatedKind =
              (IF last.ev.e2b_attempted
               THEN (IF last.ev.e2b_failed THEN "beta9" ELSE "e2b")
               ELSE IF beta9 THEN "beta9" ELSE "docker")

C6_Witness_DockerWithUsableKey ==
    /\ last.ev.created # None
    /\ CreatedKind = "docker"
    /\ KeyUsable(e2b_key)
    /\ ~Sandbox

\* C7: when a backend is held and its liveness probe succeeds,
\* get_or_create_sandbox returns that backend and changes nothing: the held
\* handle, sandbox_id, use_local_fallback, the upload cache and the backends.
C7_HealthyBackendIsReturnedUnchanged ==
    [][(/\ last'.op \in {"get_or_create_sandbox", "execute_code"}
        /\ last'.ev.probed
        /\ ~last'.ev.probe_failed) =>
          /\ Held(instance) # None
          /\ last'.ev.returned = Held(instance)
          /\ instance' = instance
          /\ backends' = backends]_vars

C7_Witness_ReusedWithUploads ==
    /\ last.op = "get_or_create_sandbox"
    /\ last.ev.probed
    /\ ~last.ev.probe_failed
    /\ response.sandbox = Held(instance)
    /\ Uploads(instance) # EmptyMap

\* C8: when the liveness probe of the held backend fails, the call invokes
\* kill on it (an error of kill is ignored), forgets the uploads of the old
\* backend, creates a new backend and returns it; the instance then holds the
\* new backend, never the dead one.
C8_DeadBackendIsReplaced ==
    [][(CallsGetOrCreate(last') /\ last'.ev.probe_failed) =>
          /\ Held(instance) # None
          /\ last'.ev.kill_on = Held(instance)
          /\ backends'[Held(instance)].killed
          /\ last'.ev.created = Len(backends) + 1
          /\ Len(backends') = Len(backends) + 1
          /\ last'.ev.returned = last'.ev.created
          /\ Held(instance') = last'.ev.created
          /\ ~backends'[Held(instance')].killed
          /\ last'.op # "upload_reference_file" => Uploads(instance') = EmptyMap
          /\ last'.op = "upload_reference_file" =>
                DOMAIN Uploads(instance') \subseteq {last'.local_path}]_vars

C8_Witness_RecreatedAfterKillError ==
    /\ last.op = "get_or_create_sandbox"
    /\ last.ev.probe_failed
    /\ last.ev.kill_raised
    /\ response.sandbox = Held(instance)
    /\ Held(instance) # last.ev.kill_on

\* C9: every backend that was created and is no longer the held one has had
\* kill invoked on it.
C9_EveryReleasedBackendWasKilled ==
    \A h \in 1..Len(backends) : h # Held(instance) => backends[h].killed

C9_Witness_ReplacedBackend ==
    /\ Len(backends) = 2
    /\ Held(instance) = 2
    /\ backends[1].killed

\* C10: while the same backend is held, a call of upload_reference_file for a
\* local path an earlier call already returned a remote path for returns that
\* same remote path and invokes no file write.
C10_SecondUploadReturnsFirstPathWithoutWrite ==
    [][(/\ last'.op = "upload_reference_file"
        /\ last'.exists
        /\ last'.local_path \in DOMAIN returned_paths
        /\ Held(instance') = Held(instance)) =>
          /\ "remote_path" \in DOMAIN response'
          /\ response'.remote_path = returned_paths[last'.local_path]
          /\ last'.write = "no"]_vars

C10_Witness_CachedUploadOtherDir ==
    /\ last.op = "upload_reference_file"
    /\ last.write = "no"
    /\ "remote_path" \in DOMAIN response
    /\ response.remote_path # RemotePath(last.local_path, last.remote_dir)

\* C11: when the transfer behind an upload fails, upload_reference_file raises
\* RuntimeError and records no mapping for that local_path, whatever the kind
\* of the backend.
C11_FailedTransferRaisesAndRecordsNothing ==
    (last.op = "upload_reference_file" /\ last.transfer = "failed")
        => /\ response = [raised |-> "RuntimeError"]
           /\ last.local_path \notin DOMAIN Uploads(instance)
\* C12: upload_reference_file for a local path that does not exist raises
\* FileNotFoundError and does nothing else: no backend is created, probed or
\* killed, no write is issued and uploaded_reference_files is unchanged, also
\* when the path is in the cache.
C12_MissingLocalPathFailsFirst ==
    [][(last'.op = "upload_reference_file" /\ ~last'.exists) =>
          /\ response' = [raised |-> "FileNotFoundError"]
          /\ last'.ev = NoEvents
          /\ last'.write = "no"
          /\ backends' = backends
          /\ Held(instance') = Held(instance)
          /\ Uploads(instance') = Uploads(instance)]_vars

C12_Witness_MissingCachedPathOnDeadBackend ==
    /\ last.op = "upload_reference_file"
    /\ ~last.exists
    /\ response = [raised |-> "FileNotFoundError"]
    /\ last.local_path \in DOMAIN Uploads(instance)
    /\ ~backends[Held(instance)].alive
\* C13: download_artifact of a remote path that an upload of this session
\* wrote bytes B to succeeds and leaves a local file whose bytes are B, for
\* every backend kind, while the backend lives and the local disk works.
C13_DownloadYieldsUploadedBytes ==
    [][(/\ last'.op = "download_artifact"
        /\ last'.remote_path \in DOMAIN files.sent
        /\ backends[Held(instance)].alive
        /\ last'.disk # "failed") =>
          /\ "local_path" \in DOMAIN response'
          /\ files'.local[response'.local_path] = files.sent[last'.remote_path]]_vars
\* The marker occurrences of text s that a path token follows.
MarkersWithToken(s) ==
    { i \in 1..Len(s) : s[i] = Marker /\ i < Len(s) /\ s[i + 1] \notin Whitespace }

\* The end of the maximal run of non-whitespace that follows position i.
TokenEnd(s, i) ==
    CHOOSE k \in (i + 1)..Len(s) :
        /\ \A j \in (i + 1)..k : s[j] \notin Whitespace
        /\ k = Len(s) \/ s[k + 1] \in Whitespace

\* The tokens that follow the positions P, in the order of the positions.
TokensAt(s, P) ==
    [n \in 1..Cardinality(P) |->
        LET i == CHOOSE p \in P : Cardinality({ q \in P : q < p }) = n - 1
        IN SubSeq(s, i + 1, TokenEnd(s, i))]

\* The occurrences that do not lie inside the token of a counted occurrence.
OutermostMarkers(s) ==
    CHOOSE P \in SUBSET MarkersWithToken(s) :
        \A i \in MarkersWithToken(s) :
            i \in P <=> ~\E j \in P : j < i /\ i <= TokenEnd(s, j)

Scanned == last.op = "scan" /\ last.run = "returned"

\* C14 as claimed: the scan returns the token after each occurrence of the
\* marker, in the order of the occurrences, repeated paths kept.
C14_ScanReturnsTokenOfEachMarker ==
    Scanned => last.artifact_paths =
                   TokensAt(last.stdout_str, MarkersWithToken(last.stdout_str))

\* C14: the scan returns, in the order of the text and with repeated paths
\* kept, the token after each occurrence of the marker that is not itself
\* inside the token of an earlier counted occurrence; a text without a marker
\* yields the empty sequence.
C14_ScanReturnsTokenOfEachOutermostMarker ==
    Scanned => last.artifact_paths =
                   TokensAt(last.stdout_str, OutermostMarkers(last.stdout_str))

C14_Witness_RepeatedPath ==
    /\ Scanned
    /\ last.stdout_str = <<Marker, "a", "\n", Marker, "a">>
    /\ last.artifact_paths = << <<"a">>, <<"a">> >>
\* C15: when the execution reports an error, execute_code extracts no
\* artifact path and calls download_artifact zero times, whatever markers the
\* stdout holds, and its response has no downloaded_artifacts.
C15_FailedExecutionDownloadsNothing ==
    (IsExecute /\ last.run = "returned" /\ last.error # Null) =>
        /\ last.artifact_paths = <<>>
        /\ last.download_calls = <<>>
        /\ "downloaded_artifacts" \notin DOMAIN response

C15_Witness_FailedExecutionWithMarkers ==
    /\ IsExecute
    /\ last.run = "returned"
    /\ last.error # Null
    /\ FindAll(last.stdout_str) # <<>>
    /\ response.success = FALSE
\* The downloaded_artifacts of the response, empty when the key is absent.
DownloadedArtifacts ==
    IF "downloaded_artifacts" \in DOMAIN response
    THEN response.downloaded_artifacts ELSE <<>>

\* The downloads of the latest call that returned, by position.
DownloadsOk == { i \in 1..Len(last.download_ok) : last.download_ok[i] }

\* C16: when one download of a successful execution with several markers
\* fails, the response is still successful with exit_code 0, every scanned
\* path was given to download_artifact, and downloaded_artifacts lists the
\* local paths of exactly the downloads that returned, in marker order.
C16_FailedDownloadIsSkipped ==
    (/\ IsExecute
     /\ last.makedirs = "ok"
     /\ Len(last.artifact_paths) > 1
     /\ \E i \in 1..Len(last.download_ok) : ~last.download_ok[i]) =>
        /\ response.success = TRUE
        /\ response.exit_code = 0
        /\ last.download_calls = last.artifact_paths
        /\ DownloadedArtifacts =
             [n \in 1..Cardinality(DownloadsOk) |->
                 LET i == CHOOSE p \in DownloadsOk :
                              Cardinality({ q \in DownloadsOk : q < p }) = n - 1
                 IN ArtifactLocalPath(last.artifact_paths[i], SandboxDir)]

C16_Witness_FirstDownloadFails ==
    /\ IsExecute
    /\ last.makedirs = "ok"
    /\ Len(last.artifact_paths) = 2
    /\ last.download_ok = <<FALSE, TRUE>>
    /\ Len(DownloadedArtifacts) = 1
\* C17: reset and cleanup return normally from every state, also when kill()
\* raises; afterwards the manager holds no backend and no upload; a second
\* reset or cleanup kills nothing and changes neither the manager nor any
\* backend; and the next get_or_create_sandbox constructs a new backend and
\* returns it without a probe.
C17_ResetAndCleanupAreIdempotent ==
    [][/\ last'.op \in {"reset", "cleanup"} =>
            /\ response' = [returned |-> "None"]
            /\ Held(instance') = None
            /\ Uploads(instance') = EmptyMap
       /\ last'.op = "reset" => instance' = <<>>
       /\ (last.op \in {"reset", "cleanup"} /\ last'.op \in {"reset", "cleanup"}) =>
            /\ last'.ev = NoEvents
            /\ backends' = backends
            /\ Held(instance') = Held(instance)
            /\ Uploads(instance') = Uploads(instance)
       /\ (last.op = last'.op /\ last'.op \in {"reset", "cleanup"}) =>
            instance' = instance
       /\ (last.op \in {"reset", "cleanup"} /\ last'.op = "get_or_create_sandbox") =>
            /\ ~last'.ev.probed
            /\ last'.ev.created = Len(backends) + 1
            /\ Held(instance') = last'.ev.created
            /\ backends'[Held(instance')].alive
            /\ ~backends'[Held(instance')].killed]_vars

\* A reset that found nothing to release, after a release whose kill() raised.
C17_Witness_SecondResetAfterKillError ==
    /\ last.op = "reset"
    /\ last.ev = NoEvents
    /\ instance = <<>>
    /\ \E h \in 1..Len(backends) :
         backends[h].kind = "e2b" /\ backends[h].killed /\ backends[h].alive
\* C18: every response of execute_code to non-empty code in language python
\* has the keys success, exit_code, stdout, stderr, sandbox_id and message.
C18_AcceptedCallReturnsFullRecord ==
    Accepted(last) =>
        {"success", "exit_code", "stdout", "stderr", "sandbox_id", "message"}
            \subseteq DOMAIN response
\* C19 as claimed: a recreation that fails after a failed health check is
\* surfaced to the caller as a creation error.
C19_FailedRecreationIsSurfaced ==
    (/\ last.op = "get_or_create_sandbox"
     /\ last.ev.probe_failed
     /\ last.ev.e2b_failed) => "raised" \in DOMAIN response

\* C19: a call of get_or_create_sandbox probes at most once, calls
\* Sandbox.create at most once and constructs at most one backend; a failed
\* probe is followed by one creation in the same call; a failed Sandbox.create
\* is not retried and not surfaced, the call returns the Beta9 fallback; the
\* call always returns the backend the manager then holds.
C19_OneProbeOneCreationAlwaysReturns ==
    [][last'.op = "get_or_create_sandbox" =>
          /\ last'.ev.probes <= 1
          /\ last'.ev.creates <= 1
          /\ Len(backends') - Len(backends) <= 1
          /\ last'.ev.probe_failed =>
                /\ last'.ev.created = Len(backends) + 1
                /\ Len(backends') = Len(backends) + 1
          /\ last'.ev.e2b_failed => backends'[last'.ev.created].kind = "beta9"
          /\ Held(instance') # None
          /\ response' = [sandbox |-> Held(instance')]]_vars

C19_Witness_RecreationFallsBack ==
    /\ last.op = "get_or_create_sandbox"
    /\ last.ev.probe_failed
    /\ last.ev.e2b_failed
    /\ response = [sandbox |-> last.ev.created]
    /\ backends[last.ev.created].kind = "beta9"
\* The kinds of the serverless and the local adapter.
AdapterKinds == {"beta9", "docker"}

\* C20: on a Beta9 or Docker backend, run_code does not raise and reports the
\* failure of a dead backend as a non-null error, files.write and files.list
\* do not raise, and files.read raises nothing but FileNotFoundError.
C20_AdaptersRaiseOnlyFileNotFound ==
    /\ (Held(instance) # None /\ backends[Held(instance)].kind \in AdapterKinds) =>
          /\ last.run # "raised"
          /\ (last.run = "returned" /\ ~backends[Held(instance)].alive) =>
                last.error # Null
          /\ last.write # "raised"
          /\ last.read \in {"no", "returned", "FileNotFoundError"}
    /\ (last.ev.probe_failed /\ last.ev.kill_on # None) =>
          backends[last.ev.kill_on].kind \notin AdapterKinds
\* A call of execute_code whose run returned without an error.
SuccessfulExecution == IsExecute /\ last.run = "returned" /\ last.error = Null

\* C21 as claimed: a successful execution calls download_artifact once for
\* each scanned path, in scan order, whatever the global state holds.
C21_EveryScannedPathIsDownloaded ==
    SuccessfulExecution => last.download_calls = last.artifact_paths

\* C21: a successful execution calls download_artifact once for each scanned
\* path, in scan order, when the global state has a data_path and the download
\* directory could be made; it calls download_artifact for no path when the
\* global state is unavailable or has no data_path, or when making the
\* directory raised.
C21_ScannedPathsAreDownloadedGivenDataPath ==
    SuccessfulExecution =>
        last.download_calls =
            IF last.global_state = "data_path" /\ last.makedirs # "raised"
            THEN last.artifact_paths ELSE <<>>

C21_Witness_MarkersWithoutDataPath ==
    /\ SuccessfulExecution
    /\ Len(last.artifact_paths) = 2
    /\ last.global_state = "no_data_path"
    /\ last.download_calls = <<>>
    /\ response.success = TRUE
\* C22: the response to a run that returned carries the captured stdout in
\* its stdout field and the captured stderr in its stderr field, with or
\* without an error.
C22_ResponseCarriesCapturedOutput ==
    (IsExecute /\ last.run = "returned" /\ "stdout" \in DOMAIN response) =>
        /\ response.stdout[1] = "logs"
        /\ StdoutStr(response.stdout[2]) = last.stdout_str
        /\ response.stderr = Str(last.stderr)
\* The entries of the latest list whose upload worked: the local file is
\* there and the transfer, if one was needed, did not fail.
EntriesUploaded ==
    { i \in 1..Len(last.entries) :
        last.entries[i].exists /\ last.entries[i].transfer # "failed" }

\* C23: upload_task_reference_files does not raise, tries every entry, and
\* returns, in input order, the remote paths of exactly the entries whose
\* upload worked; a missing local file or a failed transfer contributes
\* nothing; an empty list returns an empty list and touches no backend.
C23_ListUploadReturnsPathsOfUploadedEntries ==
    last.op = "upload_task_reference_files" =>
        /\ "remote_paths" \in DOMAIN response
        /\ Len(last.entries) = Len(last.paths)
        /\ response.remote_paths =
             [n \in 1..Cardinality(EntriesUploaded) |->
                 LET i == CHOOSE p \in EntriesUploaded :
                              Cardinality({ q \in EntriesUploaded : q < p }) = n - 1
                 IN Uploads(instance)[last.paths[i]]]
        /\ last.paths = <<>> => (response.remote_paths = <<>> /\ last.ev = NoEvents)
\* C24: while a backend is held, use_local_fallback is false exactly when it
\* is the E2B backend, sandbox_id is beta9-primary or beta9-fallback exactly
\* when it is the Beta9 backend and docker-fallback exactly when it is the
\* Docker backend, and is the E2B sandbox's own id otherwise; the sandbox_id
\* of an execute_code response is that of the held backend, which ran the code.
C24_IdentityMatchesHeldBackend ==
    Held(instance) # None =>
        LET self == instance[1]
            kind == backends[self.sandbox].kind
        IN /\ ~self.use_local_fallback <=> kind = "e2b"
           /\ self.sandbox_id \in {Str("beta9-primary"), Str("beta9-fallback")}
                 <=> kind = "beta9"
           /\ self.sandbox_id = Str("docker-fallback") <=> kind = "docker"
           /\ kind = "e2b" => self.sandbox_id = E2bId(self.sandbox)
           /\ (IsExecute /\ "sandbox_id" \in DOMAIN response) =>
                 /\ response.sandbox_id = self.sandbox_id
                 /\ last.ev.returned = self.sandbox

C24_Witness_FallbackAfterCloudBackend ==
    /\ IsExecute
    /\ last.ev.probe_failed
    /\ last.ev.e2b_failed
    /\ backends[1].kind = "e2b"
    /\ backends[Held(instance)].kind = "beta9"
    /\ response.sandbox_id = Str("beta9-fallback")
    /\ instance[1].use_local_fallback
\* C25: when the code run on the Beta9 backend raises an exception, the
\* endpoint answers exit_code 1 and the response of execute_code has success
\* false and exit_code 1, as it has on the Docker backend.
C25_RaisingCodeIsUnsuccessfulOnBeta9 ==
    (/\ IsExecute
     /\ last.raises
     /\ "exit_code" \in DOMAIN response
     /\ backends[Held(instance)].kind \in {"beta9", "docker"}) =>
        /\ EndpointResponse(TRUE).exit_code = 1
        /\ response.success = FALSE
        /\ response.exit_code = 1
\* C26: when the held backend is dead, whatever its kind, the probe of
\* get_or_create_sandbox fails and the call returns a newly created backend,
\* not the dead one.
C26_DeadBackendFailsProbe ==
    [][(/\ last'.op = "get_or_create_sandbox"
        /\ Held(instance) # None
        /\ ~backends[Held(instance)].alive) =>
          /\ last'.ev.probe_failed
          /\ last'.ev.created # None
          /\ Held(instance') = last'.ev.created
          /\ Held(instance') # Held(instance)]_vars
\* C27: when reset() or cleanup() ran while an execute_code call was in
\* progress (after it had obtained the backend), the call has returned a
\* response instead of raising, and the manager does not hold a backend that
\* this reset() or cleanup() terminated.
C27_InterleavedExecuteReturnsAndHoldsNoTerminatedBackend ==
    (IsExecute /\ inflight = NoThread /\ last.terminated # {}) =>
        /\ "success" \in DOMAIN response
        /\ ~("raised" \in DOMAIN response)
        /\ ~(Held(instance) \in last.terminated)

\* C27: a backend was terminated between two statements of a call that went
\* on to its download loop and returned.
C27_Witness_TerminatedDuringExecuteWithDownloads ==
    /\ IsExecute
    /\ inflight = NoThread
    /\ last.terminated # {}
    /\ last.download_calls # <<>>
    /\ "success" \in DOMAIN response

====
